---- MODULE Spec2Model ----
(***************************************************************************)
(* Model of the Python runtime's schema resolver (types.py) and validator  *)
(* (validation.py).  Both are pure functions of (value, type definition,   *)
(* schema); a state holds one set of arguments, and an action applies one  *)
(* of the library's public functions to them and stores what it returned   *)
(* or raised.  A last specification follows the recursion of the two      *)
(* recursive functions one call and one return at a time.                  *)
(***************************************************************************)
EXTENDS Integers, Sequences, FiniteSets

VARIABLES
    value,        \* the value handed to the validator
    type_def,     \* the type definition handed to validate_type
    is_optional,  \* validate_type's is_optional argument
    all_structs,  \* schema: struct name -> struct definition
    all_enums,    \* schema: enum name -> enum definition
    pc,           \* "input" before the call, the called function's name after
    result,       \* what the validator returned or raised
    fields,       \* what get_struct_fields returned
    stack         \* the activations of a call that is followed step by step

vars == <<value, type_def, is_optional, all_structs, all_enums, pc, result, fields,
          stack>>

----------------------------------------------------------------------------
(* Bounds of the model *)

\* longest list, and most entries of a mapping, among the validated values
MaxLen == 2

\* most fields a struct of a generated schema declares
MaxFields == 2

\* the interpreter's recursion limit, counted in activations of the function
\* that is followed step by step
MaxRecursion == 5

----------------------------------------------------------------------------
(* Python values, tagged with type(value).__name__ *)

PyNone == [k |-> "NoneType"]
PyBool(b) == [k |-> "bool", v |-> b]
PyInt(n) == [k |-> "int", v |-> n]
\* a float carries its literal, so that 1.0 and 1 stay different values
PyFloat(x) == [k |-> "float", v |-> x]
PyStr(s) == [k |-> "str", v |-> s]
\* a list carries the sequence of its elements
PyList(s) == [k |-> "list", v |-> s]
\* a dict carries its entries <<key, value>> in insertion order, keys distinct
PyDict(e) == [k |-> "dict", v |-> e]

TypeName(val) == val.k

\* the classes a value is an instance of: bool is a subclass of int
Bases(cls) == IF cls = "bool" THEN {"bool", "int"} ELSE {cls}

IsInstance(val, classes) == Bases(TypeName(val)) \cap classes # {}

\* `key in d` and `d[key]` for a dict value d
DictKeys(d) == {d.v[j][1] : j \in 1..Len(d.v)}

DictHas(d, key) == key \in DictKeys(d)

DictGet(d, key) == d.v[CHOOSE j \in 1..Len(d.v) : d.v[j][1] = key][2]

----------------------------------------------------------------------------
(* What a validator returns or raises.                                     *)
(*   exc   : "none" (returned), "TypeError" or "ValueError" (raised)       *)
(*   msg   : the exception's message, outermost part first; a wrapping     *)
(*           handler formats its own text in front of str(e)               *)
(*   at    : history: the position, as a path from the root value, of the  *)
(*           value whose validator raised the innermost exception          *)
(*   trace : history: the positions validate_type was called on, in call   *)
(*           order                                                         *)
(***************************************************************************)

\* one formatted part of a message: the literal text, the strings formatted
\* into it, and the integer formatted into it (-1 when there is none)
Msg(text, args, n) == [text |-> text, args |-> args, n |-> n]

NoError == [exc |-> "none", msg |-> <<>>, at |-> <<>>, trace |-> <<>>]

Raise(exc, m, path) == [exc |-> exc, msg |-> <<m>>, at |-> path, trace |-> <<>>]

Failed(r) == r.exc # "none"

\* one step of a position: into a list element, a map value or a struct field
IndexStep(i) == [kind |-> "index", name |-> "", struct |-> "", i |-> i]
KeyStep(key) == [kind |-> "key", name |-> key, struct |-> "", i |-> -1]
FieldStep(f, s) == [kind |-> "field", name |-> f, struct |-> s, i |-> -1]

\* r happened first, then rest: rest's outcome, with r's calls before its own
After(r, rest) == [rest EXCEPT !.trace = r.trace \o @]

\* a handler that lets the nested exception through as it is (faulty variant)
WrapNone(r, m) == r

\* `except Exception as e: raise ValueError(f"<m> {e}") from e`
Wrap(r, m) == [r EXCEPT !.exc = "ValueError", !.msg = <<m>> \o @]

----------------------------------------------------------------------------
(* types.py *)

\* dict.get(name): the definition, or None, modelled as the empty mapping
\* (None and {} are both falsy, and the code only tests truthiness)
NoDef == [x \in {} |-> x]

find_struct(name, structs) == IF name \in DOMAIN structs THEN structs[name] ELSE NoDef

find_enum(name, enums) == IF name \in DOMAIN enums THEN enums[name] ELSE NoDef

\* truthiness of a definition (a dict or None)
TruthyDef(d) == DOMAIN d # {}

\* struct_def.get('extends') is truthy
HasExtends(struct_def) == "extends" \in DOMAIN struct_def /\ struct_def.extends # ""

\* struct_def.get('fields', [])
DeclaredFields(struct_def) == IF "fields" \in DOMAIN struct_def THEN struct_def.fields ELSE <<>>

FieldNames(fs) == {fs[j].name : j \in 1..Len(fs)}

\* a loop body that moves an overridden field to the end (faulty variant)
MergeFieldAppend(fs, field) ==
    IF field.name \notin FieldNames(fs)
    THEN Append(fs, field)
    ELSE LET i == CHOOSE i \in 1..Len(fs) : fs[i].name = field.name
         IN Append(SubSeq(fs, 1, i - 1) \o SubSeq(fs, i + 1, Len(fs)), field)

\* the loop body of get_struct_fields: append a new name, or replace the first
\* entry of that name in place
MergeField(fs, field) ==
    IF field.name \notin FieldNames(fs)
    THEN Append(fs, field)
    ELSE LET i == CHOOSE i \in 1..Len(fs) :
                    /\ fs[i].name = field.name
                    /\ \A h \in 1..(i - 1) : fs[h].name # field.name
         IN [fs EXCEPT ![i] = field]

RECURSIVE MergeFields(_, _, _)
MergeFields(fs, declared, j) ==
    IF j > Len(declared) THEN fs
    ELSE MergeFields(MergeField(fs, declared[j]), declared, j + 1)

RECURSIVE get_struct_fields(_, _)

\* a resolver that gives up on a struct whose parent is missing (faulty variant)
GetStructFieldsStrictParent(name, structs) ==
    LET struct_def == find_struct(name, structs)
    IN  IF ~TruthyDef(struct_def) THEN <<>>
        ELSE IF HasExtends(struct_def) /\ ~TruthyDef(find_struct(struct_def.extends, structs))
        THEN <<>>
        ELSE LET parent_fields ==
                     IF HasExtends(struct_def)
                     THEN get_struct_fields(struct_def.extends, structs)
                     ELSE <<>>
             IN  MergeFields(parent_fields, DeclaredFields(struct_def), 1)

get_struct_fields(name, structs) ==
    LET struct_def == find_struct(name, structs)
    IN  IF ~TruthyDef(struct_def) THEN <<>>
        ELSE LET parent_fields ==
                     IF HasExtends(struct_def)
                     THEN get_struct_fields(struct_def.extends, structs)
                     ELSE <<>>
             IN  MergeFields(parent_fields, DeclaredFields(struct_def), 1)

----------------------------------------------------------------------------
(* validation.py: the built-in validators *)

validate_string(val, path) ==
    IF ~IsInstance(val, {"str"})
    THEN Raise("TypeError", Msg("Expected string, got", <<TypeName(val)>>, -1), path)
    ELSE NoError

validate_int(val, path) ==
    IF ~IsInstance(val, {"int"})
    THEN Raise("TypeError", Msg("Expected int, got", <<TypeName(val)>>, -1), path)
    ELSE NoError

validate_float(val, path) ==
    IF ~IsInstance(val, {"int", "float"})
    THEN Raise("TypeError", Msg("Expected float, got", <<TypeName(val)>>, -1), path)
    ELSE NoError

validate_bool(val, path) ==
    IF ~IsInstance(val, {"bool"})
    THEN Raise("TypeError", Msg("Expected bool, got", <<TypeName(val)>>, -1), path)
    ELSE NoError

validate_enum(val, enum_name, allowed_values, path) ==
    IF ~IsInstance(val, {"str"})
    THEN Raise("TypeError",
               Msg("Expected string for enum, got", <<enum_name, TypeName(val)>>, -1), path)
    ELSE IF \A j \in 1..Len(allowed_values) : allowed_values[j] # val.v
    THEN Raise("ValueError",
               Msg("Invalid value for enum", <<enum_name, val.v>> \o allowed_values, -1), path)
    ELSE NoError

----------------------------------------------------------------------------
(* validation.py: the recursive validators.  A callable built by a lambda  *)
(* is passed as what the lambda closes over: the element (value, field)    *)
(* type, the is_optional it hands to validate_type, and the schema.        *)
(* `path` is the position of `val` (history).                              *)

\* type_def.get('builtIn'), None modelled as the string "None"
GetBuiltIn(t) == IF "builtIn" \in DOMAIN t THEN t.builtIn ELSE "None"

\* type_def.get(key) is truthy, for a key holding a type definition
TruthyType(t, key) == key \in DOMAIN t /\ DOMAIN t[key] # {}

\* type_def.get('userDefined') is truthy
TruthyName(t) == "userDefined" \in DOMAIN t /\ t.userDefined # ""

\* field.get('optional', False)
FieldOptional(field) == IF "optional" \in DOMAIN field THEN field.optional ELSE FALSE

\* element validators that hand on the enclosing call's is_optional (faulty
\* variant)
ElementOptionalForwarded(outer_optional) == outer_optional

\* the is_optional argument the element and value validators pass on:
\* `lambda v: validate_type(v, element_type, all_structs, all_enums, False)`
ElementOptional(outer_optional) == FALSE

\* an index counted from one (faulty variant)
EnumerateIndexOneBased(j) == j

\* enumerate() counts from zero; sequences here count from one
EnumerateIndex(j) == j - 1

\* `if value is None:` at the head of validate_type
NoneOutcome(optional, path) ==
    IF optional
    THEN NoError
    ELSE Raise("ValueError", Msg("Value cannot be None for non-optional type", <<>>, -1), path)

\* a resolution that looks among the enums first (faulty variant)
ResolveUserDefinedEnumFirst(user_type, structs, enums) ==
    IF TruthyDef(find_enum(user_type, enums)) THEN "enum"
    ELSE IF TruthyDef(find_struct(user_type, structs)) THEN "struct"
    ELSE "unknown"

\* which branch `if struct_def: ... else: enum_def = ...; if enum_def:` takes
ResolveUserDefined(user_type, structs, enums) ==
    IF TruthyDef(find_struct(user_type, structs)) THEN "struct"
    ELSE IF TruthyDef(find_enum(user_type, enums)) THEN "enum"
    ELSE "unknown"

\* [v['name'] for v in enum_def.get('values', [])]
AllowedValues(enum_def) ==
    IF "values" \in DOMAIN enum_def
    THEN [j \in 1..Len(enum_def.values) |-> enum_def.values[j].name]
    ELSE <<>>

\* a field list without the inherited fields (faulty variant)
StructFieldsOwnOnly(name, struct_def, structs) == DeclaredFields(struct_def)

\* the field list validate_struct walks: get_struct_fields(struct_name, all_structs)
StructFields(name, struct_def, structs) == get_struct_fields(name, structs)

RECURSIVE validate_type(_, _, _, _, _, _)
RECURSIVE ArrayLoop(_, _, _, _, _, _, _)
RECURSIVE MapLoop(_, _, _, _, _, _, _)
RECURSIVE StructLoop(_, _, _, _, _, _, _)

\* the for loop of validate_array, from the j-th element on
ArrayLoop(elems, j, element_type, element_optional, structs, enums, path) ==
    IF j > Len(elems) THEN NoError
    ELSE LET i == EnumerateIndex(j)
             r == validate_type(elems[j], element_type, structs, enums,
                                element_optional, Append(path, IndexStep(j - 1)))
         IN  IF Failed(r)
             THEN Wrap(r, Msg("Array element at index, validation failed:", <<>>, i))
             ELSE After(r, ArrayLoop(elems, j + 1, element_type, element_optional,
                                        structs, enums, path))

validate_array(val, element_type, element_optional, structs, enums, path) ==
    IF ~IsInstance(val, {"list"})
    THEN Raise("TypeError", Msg("Expected list, got", <<TypeName(val)>>, -1), path)
    ELSE ArrayLoop(val.v, 1, element_type, element_optional, structs, enums, path)

\* the for loop of validate_map, from the j-th item on
MapLoop(items, j, value_type, value_optional, structs, enums, path) ==
    IF j > Len(items) THEN NoError
    ELSE LET key == items[j][1]
             item == items[j][2]
         IN  IF ~IsInstance(key, {"str"})
             THEN Raise("TypeError",
                        Msg("Map key must be string, got", <<TypeName(key)>>, -1), path)
             ELSE LET r == validate_type(item, value_type, structs, enums,
                                         value_optional, Append(path, KeyStep(key.v)))
                  IN  IF Failed(r)
                      THEN Wrap(r, Msg("Map value for key, validation failed:", <<key.v>>, -1))
                      ELSE After(r, MapLoop(items, j + 1, value_type, value_optional,
                                                structs, enums, path))

validate_map(val, value_type, value_optional, structs, enums, path) ==
    IF ~IsInstance(val, {"dict"})
    THEN Raise("TypeError", Msg("Expected dict, got", <<TypeName(val)>>, -1), path)
    ELSE MapLoop(val.v, 1, value_type, value_optional, structs, enums, path)

\* the for loop of validate_struct, from the j-th field of the list on
StructLoop(val, fs, j, name, structs, enums, path) ==
    IF j > Len(fs) THEN NoError
    ELSE LET field_name == fs[j].name
             field_type == fs[j].type
             optional == FieldOptional(fs[j])
             rest == StructLoop(val, fs, j + 1, name, structs, enums, path)
         IN  IF ~DictHas(val, PyStr(field_name))
             THEN IF ~optional
                  THEN Raise("ValueError",
                             Msg("Missing required field, in struct", <<field_name, name>>, -1),
                             path)
                  ELSE rest
             ELSE LET field_value == DictGet(val, PyStr(field_name))
                  IN  IF TypeName(field_value) = "NoneType"
                      THEN IF ~optional
                           THEN Raise("ValueError",
                                      Msg("Field, in struct, cannot be None",
                                          <<field_name, name>>, -1),
                                      path)
                           ELSE rest
                      ELSE LET r == validate_type(field_value, field_type, structs, enums,
                                                  optional,
                                                  Append(path, FieldStep(field_name, name)))
                           IN  IF Failed(r)
                               THEN Wrap(r, Msg("Field, in struct, validation failed:",
                                                <<field_name, name>>, -1))
                               ELSE After(r, rest)

validate_struct(val, name, struct_def, structs, enums, path) ==
    IF ~IsInstance(val, {"dict"})
    THEN Raise("TypeError",
               Msg("Expected dict for struct, got", <<name, TypeName(val)>>, -1), path)
    ELSE StructLoop(val, StructFields(name, struct_def, structs), 1, name, structs, enums,
                    path)

\* validate_type below its None check
Dispatch(val, t, structs, enums, optional, path) ==
    IF GetBuiltIn(t) = "string" THEN validate_string(val, path)
    ELSE IF GetBuiltIn(t) = "int" THEN validate_int(val, path)
    ELSE IF GetBuiltIn(t) = "float" THEN validate_float(val, path)
    ELSE IF GetBuiltIn(t) = "bool" THEN validate_bool(val, path)
    ELSE IF TruthyType(t, "array")
    THEN validate_array(val, t.array, ElementOptional(optional), structs, enums, path)
    ELSE IF TruthyType(t, "mapValue")
    THEN validate_map(val, t.mapValue, ElementOptional(optional), structs, enums, path)
    ELSE IF TruthyName(t)
    THEN LET user_type == t.userDefined
             kind == ResolveUserDefined(user_type, structs, enums)
         IN  IF kind = "struct"
             THEN validate_struct(val, user_type, find_struct(user_type, structs),
                                  structs, enums, path)
             ELSE IF kind = "enum"
             THEN validate_enum(val, user_type,
                                AllowedValues(find_enum(user_type, enums)), path)
             ELSE Raise("ValueError", Msg("Unknown user-defined type:", <<user_type>>, -1),
                        path)
    \* the message also holds repr(type_def), which nothing reads
    ELSE Raise("ValueError", Msg("Invalid type definition:", <<>>, -1), path)

\* validate_type with the None check made after the dispatch (faulty variant)
ValidateTypeDispatchFirst(val, t, structs, enums, optional, path) ==
    After([NoError EXCEPT !.trace = <<path>>],
          LET r == Dispatch(val, t, structs, enums, optional, path)
          IN  IF Failed(r) \/ TypeName(val) # "NoneType" THEN r
              ELSE NoneOutcome(optional, path))

validate_type(val, t, structs, enums, optional, path) ==
    After([NoError EXCEPT !.trace = <<path>>],
          IF TypeName(val) = "NoneType"
          THEN NoneOutcome(optional, path)
          ELSE Dispatch(val, t, structs, enums, optional, path))

----------------------------------------------------------------------------
(* The arguments the model draws *)

TString == [builtIn |-> "string"]
TInt == [builtIn |-> "int"]
TFloat == [builtIn |-> "float"]
TBool == [builtIn |-> "bool"]
\* a type definition with no recognised variant
TBytes == [builtIn |-> "bytes"]
TArray(t) == [array |-> t]
TMap(t) == [mapValue |-> t]
TUser(name) == [userDefined |-> name]

Field(name, t, optional) == [name |-> name, type |-> t, optional |-> optional]
\* a field whose declaration has no 'optional' key
FieldBare(name, t) == [name |-> name, type |-> t]

Enum(names) == [values |-> [j \in 1..Len(names) |-> [name |-> names[j]]]]

SchemaIds == {"plain", "override", "nested"}

\* "plain": test_validate_struct_with_extends, plus a name that is both a
\* struct and an enum.  "override": a child that overrides both inherited
\* fields.  "nested": a struct that refers to itself, and one whose parent
\* is missing.
SchemaStructs(id) ==
    CASE id = "plain" ->
           [Base |-> [fields |-> <<Field("id", TString, FALSE)>>],
            User |-> [extends |-> "Base",
                      fields |-> <<Field("tags", TArray(TString), TRUE)>>],
            Platform |-> [fields |-> <<FieldBare("id", TInt)>>]]
      [] id = "override" ->
           [Base |-> [fields |-> <<Field("id", TString, FALSE),
                                   Field("tags", TMap(TInt), TRUE)>>],
            User |-> [extends |-> "Base",
                      fields |-> <<Field("tags", TUser("Platform"), FALSE),
                                   Field("id", TInt, TRUE)>>]]
      [] id = "nested" ->
           [Base |-> [fields |-> <<FieldBare("id", TInt),
                                   Field("tags", TUser("Base"), TRUE)>>],
            User |-> [extends |-> "Ghost",
                      fields |-> <<Field("tags", TArray(TUser("Base")), FALSE)>>]]

SchemaEnums(id) ==
    CASE id = "plain" -> [Platform |-> Enum(<<"kindle", "nook">>)]
      [] id = "override" -> [Platform |-> Enum(<<"kindle", "nook">>)]
      [] id = "nested" -> [Platform |-> Enum(<<>>)]

\* the type definitions that do not look at the schema
PlainTypes ==
    {TString, TInt, TFloat, TBool, TBytes,
     TArray(TString), TArray(TArray(TInt)), TMap(TInt), TMap(TArray(TString))}

\* the type definitions that name a user-defined type
UserTypes ==
    {TUser("Base"), TUser("User"), TUser("Platform"), TUser("Nope"),
     TArray(TUser("Base")), TMap(TUser("Platform"))}

TypesFor(id) == IF id = "plain" THEN PlainTypes \cup UserTypes ELSE UserTypes

Atoms ==
    {PyNone, PyBool(TRUE), PyBool(FALSE), PyInt(0), PyInt(1),
     PyFloat("1.0"), PyFloat("3.14"), PyStr("a"), PyStr("kindle")}

\* dict keys: two field names and a key that is not a string
Keys == {PyStr("id"), PyStr("tags"), PyInt(123)}

SeqsUpTo(S, n) == UNION {[1..m -> S] : m \in 0..n}

DistinctKeys(e) == \A i, j \in 1..Len(e) : i # j => e[i][1] # e[j][1]

Lists(pool, n) == {PyList(s) : s \in SeqsUpTo(pool, n)}

Dicts(pool, n) == {PyDict(e) : e \in {e \in SeqsUpTo(Keys \X pool, n) : DistinctKeys(e)}}

\* what a nested container holds
InnerAtoms == {PyNone, PyInt(1), PyStr("a")}

\* the containers nested in the validated value: lists of at most one
\* element, dicts of at most one entry, and a list holding a dict
InnerLists == {PyList(s) : s \in SeqsUpTo(InnerAtoms, 1)}

InnerDicts ==
    {PyDict(<<>>), PyDict(<<<<PyInt(123), PyInt(1)>>>>)}
        \cup {PyDict(<<<<PyStr("id"), a>>>>) : a \in InnerAtoms}

InnerDeep == {PyList(<<PyDict(<<<<PyStr("id"), a>>>>)>>) : a \in {PyInt(1), PyStr("a")}}

\* what the validated value holds when it is a container
ElemPool ==
    {PyNone, PyInt(1), PyStr("kindle")} \cup InnerLists \cup InnerDicts \cup InnerDeep

Values == Atoms \cup Lists(ElemPool, MaxLen) \cup Dicts(ElemPool, MaxLen)

----------------------------------------------------------------------------
(* The state machine: draw the arguments, call one function *)

Init ==
    /\ \E id \in SchemaIds :
         /\ all_structs = SchemaStructs(id)
         /\ all_enums = SchemaEnums(id)
         /\ type_def \in TypesFor(id)
    /\ value \in Values
    /\ is_optional \in BOOLEAN
    /\ pc = "input"
    /\ result = NoError
    /\ fields = <<>>
    /\ stack = <<>>

Inputs == <<value, type_def, is_optional, all_structs, all_enums>>

CallValidateType ==
    /\ pc = "input"
    /\ result' = validate_type(value, type_def, all_structs, all_enums, is_optional, <<>>)
    /\ pc' = "validate_type"
    /\ UNCHANGED <<Inputs, fields, stack>>

\* validate_string / validate_int / validate_float / validate_bool called
\* directly, as the tests do
CallValidateBuiltIn ==
    /\ pc = "input"
    /\ ~is_optional
    /\ GetBuiltIn(type_def) \in {"string", "int", "float", "bool"}
    /\ result' = CASE GetBuiltIn(type_def) = "string" -> validate_string(value, <<>>)
                    [] GetBuiltIn(type_def) = "int" -> validate_int(value, <<>>)
                    [] GetBuiltIn(type_def) = "float" -> validate_float(value, <<>>)
                    [] GetBuiltIn(type_def) = "bool" -> validate_bool(value, <<>>)
    /\ pc' = "validate_builtin"
    /\ UNCHANGED <<Inputs, fields, stack>>

\* validate_array called directly, with the element validator validate_type builds
CallValidateArray ==
    /\ pc = "input"
    /\ ~is_optional
    /\ TruthyType(type_def, "array")
    /\ result' = validate_array(value, type_def.array, ElementOptional(is_optional),
                                all_structs, all_enums, <<>>)
    /\ pc' = "validate_array"
    /\ UNCHANGED <<Inputs, fields, stack>>

\* validate_map called directly, with the value validator validate_type builds
CallValidateMap ==
    /\ pc = "input"
    /\ ~is_optional
    /\ TruthyType(type_def, "mapValue")
    /\ result' = validate_map(value, type_def.mapValue, ElementOptional(is_optional),
                              all_structs, all_enums, <<>>)
    /\ pc' = "validate_map"
    /\ UNCHANGED <<Inputs, fields, stack>>

\* validate_struct called directly on a struct of the schema, as the tests do
CallValidateStruct ==
    /\ pc = "input"
    /\ ~is_optional
    /\ TruthyName(type_def)
    /\ type_def.userDefined \in DOMAIN all_structs
    /\ result' = validate_struct(value, type_def.userDefined,
                                 all_structs[type_def.userDefined],
                                 all_structs, all_enums, <<>>)
    /\ pc' = "validate_struct"
    /\ UNCHANGED <<Inputs, fields, stack>>

\* get_struct_fields called on the name the type definition holds
CallGetStructFields ==
    /\ pc = "input"
    /\ TruthyName(type_def)
    /\ fields' = get_struct_fields(type_def.userDefined, all_structs)
    /\ pc' = "get_struct_fields"
    /\ UNCHANGED <<Inputs, result, stack>>

Next ==
    \/ CallValidateType
    \/ CallValidateBuiltIn
    \/ CallValidateArray
    \/ CallValidateMap
    \/ CallValidateStruct
    \/ CallGetStructFields

Spec == Init /\ [][Next]_vars

----------------------------------------------------------------------------
(* A second specification for the resolver alone: every schema of three    *)
(* structs A, B, C with B extending nothing, A or a missing struct, and C  *)
(* extending nothing, A or B, each declaring up to MaxFields fields.       *)

FieldPool ==
    {Field("x", TString, FALSE), Field("x", TInt, TRUE), FieldBare("y", TString)}

Declarations == SeqsUpTo(FieldPool, MaxFields)

StructDef(parent, declared) ==
    IF parent = "" THEN [fields |-> declared] ELSE [extends |-> parent, fields |-> declared]

InitResolve ==
    /\ \E fa, fb, fc \in Declarations, pb \in {"", "A", "Ghost"}, pc_ \in {"", "A", "B"} :
         all_structs = [A |-> StructDef("", fa), B |-> StructDef(pb, fb),
                        C |-> StructDef(pc_, fc)]
    /\ all_enums = SchemaEnums("plain")
    /\ type_def \in {TUser("A"), TUser("B"), TUser("C"), TUser("Nope")}
    /\ value = PyNone
    /\ is_optional = FALSE
    /\ pc = "input"
    /\ result = NoError
    /\ fields = <<>>
    /\ stack = <<>>

NextResolve == CallGetStructFields

SpecResolve == InitResolve /\ [][NextResolve]_vars

----------------------------------------------------------------------------
(* Claims *)

\* every extends of the schema names a struct of the schema
ParentsExist(structs) ==
    \A s \in DOMAIN structs : HasExtends(structs[s]) => structs[s].extends \in DOMAIN structs

\* the struct reached from `name` by following extends `n` times ("" when the
\* chain ends before)
RECURSIVE AncestorAt(_, _, _)
AncestorAt(name, structs, n) ==
    IF n = 0 \/ name = "" THEN name
    ELSE IF name \in DOMAIN structs /\ HasExtends(structs[name])
    THEN AncestorAt(structs[name].extends, structs, n - 1)
    ELSE ""

Acyclic(structs) ==
    \A s \in DOMAIN structs :
        \A n \in 1..Cardinality(DOMAIN structs) : AncestorAt(s, structs, n) # s

\* the positions of `declared` that hold the last declaration of their name
LastOfName(declared, j) == \A h \in (j + 1)..Len(declared) : declared[h].name # declared[j].name

\* the positions of `declared` that hold the first declaration of a name the
\* parent list lacks, in declaration order
RECURSIVE AddedPositions(_, _, _)
AddedPositions(parent, declared, j) ==
    IF j > Len(declared) THEN <<>>
    ELSE IF /\ declared[j].name \notin FieldNames(parent)
            /\ \A h \in 1..(j - 1) : declared[h].name # declared[j].name
         THEN <<j>> \o AddedPositions(parent, declared, j + 1)
         ELSE AddedPositions(parent, declared, j + 1)

\* the field S declares (last) under `name`
DeclaredAs(declared, name) ==
    declared[CHOOSE j \in 1..Len(declared) : declared[j].name = name /\ LastOfName(declared, j)]

\* the list the claim describes, stated position by position: the parent's
\* list, each entry S redeclares replaced where it stands, then the names S
\* adds in declaration order
ClaimedFields(parent, declared) ==
    LET added == AddedPositions(parent, declared, 1)
    IN  [i \in 1..(Len(parent) + Len(added)) |->
            IF i <= Len(parent)
            THEN IF parent[i].name \in FieldNames(declared)
                 THEN DeclaredAs(declared, parent[i].name)
                 ELSE parent[i]
            ELSE DeclaredAs(declared, declared[added[i - Len(parent)]].name)]

ParentFieldsOf(name, structs) ==
    IF HasExtends(structs[name]) THEN get_struct_fields(structs[name].extends, structs)
    ELSE <<>>

ResolvedStruct == pc = "get_struct_fields" /\ type_def.userDefined \in DOMAIN all_structs

\* C1: in a schema whose extends chains are acyclic and whose parents all
\* exist, get_struct_fields(S) is the parent's resolved list with every
\* field S redeclares replaced in place and the fields S adds appended in
\* declaration order: inherited names keep their positions
C1_ResolvedFieldsAreParentThenOwn ==
    (ResolvedStruct /\ Acyclic(all_structs) /\ ParentsExist(all_structs)) =>
        LET S == type_def.userDefined
            parent == ParentFieldsOf(S, all_structs)
        IN  /\ fields = ClaimedFields(parent, DeclaredFields(all_structs[S]))
            /\ Len(fields) >= Len(parent)
            /\ \A i \in 1..Len(parent) : fields[i].name = parent[i].name

\* C1 witness: a struct that declares a new field first and then redeclares
\* its parent's only field with another type: the override comes first
C1_Witness ==
    /\ ResolvedStruct /\ Acyclic(all_structs) /\ ParentsExist(all_structs)
    /\ LET S == type_def.userDefined
           parent == ParentFieldsOf(S, all_structs)
           declared == DeclaredFields(all_structs[S])
       IN  /\ Len(parent) = 1 /\ Len(declared) = 2 /\ Len(fields) = 2
           /\ declared[1].name # parent[1].name
           /\ fields[1] = declared[2]
           /\ fields[1].type # parent[1].type
           /\ fields[2] = declared[1]

----------------------------------------------------------------------------
\* the message and exception of an outcome, without the history
Error(exc, m) == [exc |-> exc, msg |-> m]

Outcome(r) == [exc |-> r.exc, msg |-> r.msg]

MissingValueError ==
    Error("ValueError", <<Msg("Value cannot be None for non-optional type", <<>>, -1)>>)

\* C2: validate_type on the null value succeeds iff is_optional, whatever the
\* type definition; without is_optional it fails with the missing-value
\* error, and no validator below validate_type is entered
C2_NullSucceedsIffOptional ==
    (pc = "validate_type" /\ value = PyNone) =>
        /\ ~Failed(result) <=> is_optional
        /\ ~is_optional => Outcome(result) = MissingValueError
        /\ result.trace = <<<<>>>>

\* C2 witness: null passed as optional against a userDefined name that is
\* neither a struct nor an enum
C2_Witness ==
    /\ pc = "validate_type" /\ value = PyNone /\ is_optional
    /\ type_def = TUser("Nope")
    /\ ~Failed(result)

\* a call of the validator of a built-in type on a value: validate_type on a
\* non-null value, or the built-in's own validator on any value
BuiltInCall(kind) ==
    /\ GetBuiltIn(type_def) = kind
    /\ \/ pc = "validate_type" /\ value # PyNone
       \/ pc = "validate_builtin"

TypeMismatch(r) == r.exc = "TypeError" /\ Len(r.msg) = 1

\* C3 (as claimed): builtin int succeeds exactly on integer values and builtin
\* bool exactly on boolean values; a boolean against int, and an integer
\* against bool, fail with a type mismatch
C3_BoolAndIntNeverInterchange ==
    /\ BuiltInCall("int") =>
          /\ ~Failed(result) <=> TypeName(value) = "int"
          /\ TypeName(value) = "bool" => TypeMismatch(result)
    /\ BuiltInCall("bool") =>
          /\ ~Failed(result) <=> TypeName(value) = "bool"
          /\ TypeName(value) = "int" => TypeMismatch(result)

\* C4 (as claimed): builtin float succeeds exactly on integer and floating
\* values, and builtin int fails on every floating value
C4_FloatAcceptsExactlyNumbers ==
    /\ BuiltInCall("float") => (~Failed(result) <=> TypeName(value) \in {"int", "float"})
    /\ BuiltInCall("int") => (TypeName(value) = "float" => TypeMismatch(result))

----------------------------------------------------------------------------
\* a call of validate_struct on a struct of the schema: directly, or through
\* validate_type on a non-null value
StructCall ==
    /\ TruthyName(type_def)
    /\ type_def.userDefined \in DOMAIN all_structs
    /\ \/ pc = "validate_struct"
       \/ pc = "validate_type" /\ value # PyNone

IsOptionalField(f) == "optional" \in DOMAIN f /\ f.optional

\* what the claim asks of one field of the resolved list
FieldAccepted(val, f) ==
    IF ~DictHas(val, PyStr(f.name)) THEN IsOptionalField(f)
    ELSE IF DictGet(val, PyStr(f.name)) = PyNone THEN IsOptionalField(f)
    ELSE ~Failed(validate_type(DictGet(val, PyStr(f.name)), f.type,
                               all_structs, all_enums, FALSE, <<>>))

StructAccepts(val, fs) ==
    /\ TypeName(val) = "dict"
    /\ \A j \in 1..Len(fs) : FieldAccepted(val, fs[j])

\* the dict d with an entry put in at position p, and with its j-th entry taken out
InsertEntry(d, p, key, item) ==
    PyDict(SubSeq(d.v, 1, p - 1) \o <<<<key, item>>>> \o SubSeq(d.v, p, Len(d.v)))

RemoveEntry(d, j) == PyDict(SubSeq(d.v, 1, j - 1) \o SubSeq(d.v, j + 1, Len(d.v)))

IsFieldKey(key, fs) == TypeName(key) = "str" /\ key.v \in FieldNames(fs)

\* keys and values tried as undeclared entries
ExtraKeys == Keys \cup {PyStr("extra")}

ExtraItems == {PyNone, PyInt(1), PyList(<<PyNone>>)}

\* C5: validate_struct succeeds iff the value is a mapping in which every
\* field of the resolved list (inherited ones included) is optional when
\* absent or null and validates against its type otherwise; putting in or
\* taking out an entry whose key is no field of the resolved list changes
\* neither the success nor the error
C5_StructChecksResolvedFieldsOnly ==
    StructCall =>
        LET S == type_def.userDefined
            fs == get_struct_fields(S, all_structs)
            Again(val) == validate_struct(val, S, all_structs[S], all_structs, all_enums, <<>>)
        IN  /\ ~Failed(result) <=> StructAccepts(value, fs)
            /\ TypeName(value) = "dict" =>
                 /\ \A key \in ExtraKeys, item \in ExtraItems, p \in 1..(Len(value.v) + 1) :
                        (~IsFieldKey(key, fs) /\ ~DictHas(value, key)) =>
                            Outcome(Again(InsertEntry(value, p, key, item))) = Outcome(result)
                 /\ \A j \in 1..Len(value.v) :
                        ~IsFieldKey(value.v[j][1], fs) =>
                            Outcome(Again(RemoveEntry(value, j))) = Outcome(result)

\* C5 witness: a User of the "plain" schema with its inherited field id and an
\* undeclared key validates
C5_Witness ==
    /\ pc = "validate_struct"
    /\ all_structs = SchemaStructs("plain") /\ type_def = TUser("User")
    /\ TypeName(value) = "dict"
    /\ DictHas(value, PyStr("id")) /\ DictHas(value, PyInt(123))
    /\ ~Failed(result)

----------------------------------------------------------------------------
\* a call of validate_map: directly, or through validate_type on a non-null value
MapCall ==
    /\ GetBuiltIn(type_def) \notin {"string", "int", "float", "bool"}
    /\ ~TruthyType(type_def, "array")
    /\ TruthyType(type_def, "mapValue")
    /\ \/ pc = "validate_map"
       \/ pc = "validate_type" /\ value # PyNone

NonStringKeys(d) == {key \in DictKeys(d) : TypeName(key) # "str"}

\* C6 (as claimed): a mapping with at least one key that is not a string
\* fails against a map type with the key-type error, whatever its values are
C6_NonStringKeyGivesKeyTypeError ==
    (MapCall /\ TypeName(value) = "dict" /\ NonStringKeys(value) # {}) =>
        \E key \in NonStringKeys(value) :
            Outcome(result) =
                Error("TypeError", <<Msg("Map key must be string, got", <<TypeName(key)>>, -1)>>)

----------------------------------------------------------------------------
\* a call of validate_array: directly, or through validate_type on a non-null value
ArrayCall ==
    /\ GetBuiltIn(type_def) \notin {"string", "int", "float", "bool"}
    /\ TruthyType(type_def, "array")
    /\ \/ pc = "validate_array"
       \/ pc = "validate_type" /\ value # PyNone

\* the element validator alone, on the j-th element
ElementFails(j) ==
    Failed(validate_type(value.v[j], type_def.array, all_structs, all_enums, FALSE, <<>>))

\* the list indexes of the elements validate_type was called on
IndexesValidated(r) ==
    {r.trace[h][1].i : h \in {h \in 1..Len(r.trace) : Len(r.trace[h]) > 0}}

\* C7: a sequence validates against an array type iff every element validates
\* against the element type; a failure names the zero-based index of the
\* first failing element, the elements up to it are the only ones validated;
\* a value that is no sequence is a type mismatch with no element validated
C7_ArrayStopsAtFirstFailingIndex ==
    ArrayCall =>
        IF TypeName(value) = "list"
        THEN LET failing == {j \in 1..Len(value.v) : ElementFails(j)}
             IN  /\ ~Failed(result) <=> failing = {}
                 /\ failing = {} => IndexesValidated(result) = {j - 1 : j \in 1..Len(value.v)}
                 /\ failing # {} =>
                      LET first == CHOOSE j \in failing : \A h \in failing : j <= h
                      IN  /\ result.exc = "ValueError"
                          /\ result.msg[1] =
                                 Msg("Array element at index, validation failed:", <<>>, first - 1)
                          /\ IndexesValidated(result) = {j - 1 : j \in 1..first}
        ELSE /\ Outcome(result) =
                    Error("TypeError", <<Msg("Expected list, got", <<TypeName(value)>>, -1)>>)
             /\ IndexesValidated(result) = {}

\* C7 witness: a list whose two elements both fail is reported at index 0
\* with the second element never validated
C7_Witness ==
    /\ ArrayCall /\ pc = "validate_type"
    /\ TypeName(value) = "list" /\ Len(value.v) = 2
    /\ ElementFails(1) /\ ElementFails(2)
    /\ result.msg[1].n = 0
    /\ IndexesValidated(result) = {0}

----------------------------------------------------------------------------
\* validate_type called on a non-null value with a userDefined type definition
UserDefinedCall ==
    /\ pc = "validate_type" /\ value # PyNone
    /\ GetBuiltIn(type_def) \notin {"string", "int", "float", "bool"}
    /\ ~TruthyType(type_def, "array") /\ ~TruthyType(type_def, "mapValue")
    /\ TruthyName(type_def)

EnumNames(enum_def) == {enum_def.values[j].name : j \in 1..Len(enum_def.values)}

\* C8: a userDefined name resolves against the structs first (the outcome is
\* that of validate_struct, also when an enum has the same name), then
\* against the enums (success iff the value is a string among the allowed
\* values; a non-string is a type mismatch, another string an invalid-enum-
\* value error); a name that is neither fails with the unknown-type error
C8_UserDefinedResolvesStructThenEnum ==
    UserDefinedCall =>
        LET name == type_def.userDefined
        IN  IF name \in DOMAIN all_structs
            THEN Outcome(result) =
                     Outcome(validate_struct(value, name, all_structs[name],
                                             all_structs, all_enums, <<>>))
            ELSE IF name \in DOMAIN all_enums
            THEN /\ ~Failed(result) <=>
                        (TypeName(value) = "str" /\ value.v \in EnumNames(all_enums[name]))
                 /\ TypeName(value) # "str" =>
                        (TypeMismatch(result)
                           /\ result.msg[1].text = "Expected string for enum, got")
                 /\ (TypeName(value) = "str" /\ Failed(result)) =>
                        (result.exc = "ValueError" /\ Len(result.msg) = 1
                           /\ result.msg[1].text = "Invalid value for enum")
            ELSE Outcome(result) =
                     Error("ValueError", <<Msg("Unknown user-defined type:", <<name>>, -1)>>)

\* C8 witness: Platform is a struct and an enum of the "plain" schema; a
\* mapping with the struct's field validates, which no enum value could
C8_Witness ==
    /\ UserDefinedCall
    /\ type_def = TUser("Platform")
    /\ "Platform" \in DOMAIN all_structs /\ "Platform" \in DOMAIN all_enums
    /\ TypeName(value) = "dict"
    /\ ~Failed(result)

----------------------------------------------------------------------------
HoldsNone(val) ==
    \/ TypeName(val) = "list" /\ \E j \in 1..Len(val.v) : val.v[j] = PyNone
    \/ TypeName(val) = "dict" /\ \E j \in 1..Len(val.v) : val.v[j][2] = PyNone

IsCollectionType(t) ==
    /\ GetBuiltIn(t) \notin {"string", "int", "float", "bool"}
    /\ TruthyType(t, "array") \/ TruthyType(t, "mapValue")

\* the kind of value the collection type t validates
CollectionKind(t) == IF TruthyType(t, "array") THEN "list" ELSE "dict"

\* an optional field of the resolved list of struct S whose type is an array
\* or a map, and that val gives a collection of that kind holding a null
OptionalFieldHoldsNone(val, S) ==
    LET fs == get_struct_fields(S, all_structs)
    IN  \E j \in 1..Len(fs) :
            /\ IsOptionalField(fs[j])
            /\ IsCollectionType(fs[j].type)
            /\ DictHas(val, PyStr(fs[j].name))
            /\ TypeName(DictGet(val, PyStr(fs[j].name))) = CollectionKind(fs[j].type)
            /\ HoldsNone(DictGet(val, PyStr(fs[j].name)))

\* C9: a list holding a null fails against every array type and a mapping
\* holding a null value fails against every map type, with is_optional
\* true as with false, and also as the value of an optional struct field
C9_CollectionMembersNeverOptional ==
    /\ (pc \in {"validate_type", "validate_array", "validate_map"}
          /\ IsCollectionType(type_def)
          /\ TypeName(value) = CollectionKind(type_def) /\ HoldsNone(value))
       => Failed(result)
    /\ (StructCall /\ TypeName(value) = "dict"
          /\ OptionalFieldHoldsNone(value, type_def.userDefined))
       => Failed(result)

\* C9 witness: validate_type with is_optional true on a User of the "plain"
\* schema whose optional field tags is a list holding a null; the call fails
\* at that element
C9_Witness ==
    /\ pc = "validate_type" /\ is_optional
    /\ all_structs = SchemaStructs("plain") /\ type_def = TUser("User")
    /\ TypeName(value) = "dict"
    /\ OptionalFieldHoldsNone(value, "User")
    /\ Failed(result)
    /\ result.at = <<FieldStep("tags", "User"), IndexStep(0)>>

----------------------------------------------------------------------------
\* the field called `name` in the resolved list of struct S
ResolvedField(S, name) ==
    LET fs == get_struct_fields(S, all_structs)
    IN  fs[CHOOSE j \in 1..Len(fs) : fs[j].name = name]

\* one step down from a value of type t: the step exists in the value, and
\* t is the level the step names
StepFits(val, t, st) ==
    CASE st.kind = "index" ->
           /\ TruthyType(t, "array") /\ TypeName(val) = "list"
           /\ st.i + 1 \in 1..Len(val.v)
      [] st.kind = "key" ->
           /\ TruthyType(t, "mapValue") /\ TypeName(val) = "dict"
           /\ DictHas(val, PyStr(st.name))
      [] st.kind = "field" ->
           /\ TruthyName(t) /\ t.userDefined = st.struct
           /\ st.struct \in DOMAIN all_structs
           /\ st.name \in FieldNames(get_struct_fields(st.struct, all_structs))
           /\ TypeName(val) = "dict" /\ DictHas(val, PyStr(st.name))

StepValue(val, st) ==
    IF st.kind = "index" THEN val.v[st.i + 1] ELSE DictGet(val, PyStr(st.name))

StepType(t, st) ==
    CASE st.kind = "index" -> t.array
      [] st.kind = "key" -> t.mapValue
      [] st.kind = "field" -> ResolvedField(st.struct, st.name).type

\* whether a null is allowed where the step leads
StepOptional(st) ==
    IF st.kind = "field" THEN IsOptionalField(ResolvedField(st.struct, st.name)) ELSE FALSE

\* the path leads from val, of type t, down through nested levels
RECURSIVE PathFits(_, _, _)
PathFits(val, t, path) ==
    \/ path = <<>>
    \/ /\ StepFits(val, t, Head(path))
       /\ PathFits(StepValue(val, Head(path)), StepType(t, Head(path)), Tail(path))

\* the outcome of validating, on its own, the value the path leads to
RECURSIVE ValidatedAt(_, _, _, _)
ValidatedAt(val, t, optional, path) ==
    IF path = <<>>
    THEN validate_type(val, t, all_structs, all_enums, optional, <<>>)
    ELSE ValidatedAt(StepValue(val, Head(path)), StepType(t, Head(path)),
                     StepOptional(Head(path)), Tail(path))

\* the context a level adds in front of a nested failure
ContextLayer(st) ==
    CASE st.kind = "index" -> Msg("Array element at index, validation failed:", <<>>, st.i)
      [] st.kind = "key" -> Msg("Map value for key, validation failed:", <<st.name>>, -1)
      [] st.kind = "field" ->
           Msg("Field, in struct, validation failed:", <<st.name, st.struct>>, -1)

ContextTexts ==
    {"Array element at index, validation failed:", "Map value for key, validation failed:",
     "Field, in struct, validation failed:"}

ValidatorCalled ==
    pc \in {"validate_type", "validate_builtin", "validate_array", "validate_map",
            "validate_struct"}

\* C10: a failure carries one context layer for each struct, array or map
\* level between the root and the value whose validator raised, outermost
\* first (field and struct name, zero-based index, or key), followed by the
\* error that value raises when validated on its own; a failure of the root
\* carries no layer
C10_OneContextLayerPerLevel ==
    (ValidatorCalled /\ Failed(result)) =>
        LET depth == Len(result.at)
        IN  /\ PathFits(value, type_def, result.at)
            /\ Len(result.msg) = depth + 1
            /\ \A h \in 1..depth : result.msg[h] = ContextLayer(result.at[h])
            /\ result.msg[depth + 1].text \notin ContextTexts
            /\ depth > 0 =>
                 /\ result.exc = "ValueError"
                 /\ ValidatedAt(value, type_def, is_optional, result.at).msg
                        = <<result.msg[depth + 1]>>

\* C10 witness: in the "nested" schema a User whose tags hold a Base with a
\* string id fails three levels down: field tags, index 0, field id
C10_Witness ==
    /\ pc = "validate_type" /\ Failed(result)
    /\ result.at = <<FieldStep("tags", "User"), IndexStep(0), FieldStep("id", "Base")>>
    /\ result.msg[4] = Msg("Expected int, got", <<"str">>, -1)

----------------------------------------------------------------------------
(* A third specification for a struct whose parent may be missing: Base    *)
(* declares a required string id; User extends nothing, Base or the absent *)
(* Ghost and declares up to MaxFields fields; the resolver and the         *)
(* validator are called on User, on Base and on the absent name Ghost.     *)

LenientFieldPool ==
    {Field("id", TInt, FALSE), Field("tags", TString, TRUE), FieldBare("tags", TInt)}

LenientValues == {PyNone, PyInt(1)} \cup Dicts(InnerAtoms, MaxLen)

InitLenient ==
    /\ \E declared \in SeqsUpTo(LenientFieldPool, MaxFields), parent \in {"", "Base", "Ghost"} :
         all_structs = [Base |-> [fields |-> <<Field("id", TString, FALSE)>>],
                        User |-> StructDef(parent, declared)]
    /\ all_enums = SchemaEnums("plain")
    /\ type_def \in {TUser("User"), TUser("Base"), TUser("Ghost")}
    /\ value \in LenientValues
    /\ is_optional = FALSE
    /\ pc = "input"
    /\ result = NoError
    /\ fields = <<>>
    /\ stack = <<>>

NextLenient ==
    \/ CallGetStructFields
    \/ CallValidateStruct
    \/ CallValidateType

SpecLenient == InitLenient /\ [][NextLenient]_vars

\* the struct exists and its extends names a struct the schema does not hold
MissingParent(name, structs) ==
    /\ name \in DOMAIN structs
    /\ HasExtends(structs[name])
    /\ structs[name].extends \notin DOMAIN structs

\* no name is declared twice (the data model's rule for one declaring struct)
DistinctNames(declared) ==
    \A i, j \in 1..Len(declared) : i # j => declared[i].name # declared[j].name

\* C11: get_struct_fields gives the empty list for a name the schema does not
\* hold, and for a struct whose extends names an absent struct it gives the
\* struct's own declared fields, in their order, and nothing else; validating
\* a value against such a struct succeeds exactly when the value is a dict
\* that satisfies each of the struct's own fields
C11_MissingParentGivesOwnFields ==
    LET name == type_def.userDefined
        declared == DeclaredFields(find_struct(name, all_structs))
    IN  /\ (pc = "get_struct_fields" /\ name \notin DOMAIN all_structs) => fields = <<>>
        /\ (pc = "get_struct_fields" /\ MissingParent(name, all_structs)
                /\ DistinctNames(declared)) => fields = declared
        /\ (StructCall /\ MissingParent(name, all_structs) /\ DistinctNames(declared)) =>
               (~Failed(result) <=> StructAccepts(value, declared))

\* C11 witness: User extends the absent Ghost and declares id and tags; the
\* resolver returned both, and a dict with an int id and no string id of
\* Base's kind was accepted
C11_Witness ==
    /\ MissingParent("User", all_structs)
    /\ type_def = TUser("User")
    /\ all_structs.User.fields = <<Field("tags", TString, TRUE), Field("id", TInt, FALSE)>>
    /\ \/ pc = "get_struct_fields" /\ fields = all_structs.User.fields
       \/ /\ pc = "validate_type" /\ ~Failed(result)
          /\ value = PyDict(<<<<PyStr("id"), PyInt(1)>>>>)

----------------------------------------------------------------------------
(* The two recursive functions followed step by step.  The stack holds one *)
(* activation for each call of validate_type (with the validate_array,     *)
(* validate_map or validate_struct it dispatches to and the lambda between *)
(* them) or of get_struct_fields that has not returned; a step makes one   *)
(* call, moves one loop on, or makes one return.                           *)

TopFrame == stack[Len(stack)]

\* an activation of validate_type: its arguments, the position of the loop
\* it dispatched to, and what it is about to return or raise
Frame(val, t, optional, path) ==
    [val |-> val, t |-> t, optional |-> optional, path |-> path,
     j |-> 1, done |-> FALSE, out |-> NoError]

\* the loop validate_type reaches for these arguments: validate_array's,
\* validate_map's or validate_struct's, or none ("leaf": the None check, a
\* built-in, an enum, a container check that fails, an unknown type)
LoopKind(val, t, structs, enums) ==
    IF TypeName(val) = "NoneType" \/ GetBuiltIn(t) \in {"string", "int", "float", "bool"}
    THEN "leaf"
    ELSE IF TruthyType(t, "array")
    THEN IF IsInstance(val, {"list"}) THEN "array" ELSE "leaf"
    ELSE IF TruthyType(t, "mapValue")
    THEN IF IsInstance(val, {"dict"}) THEN "map" ELSE "leaf"
    ELSE IF /\ TruthyName(t)
            /\ ResolveUserDefined(t.userDefined, structs, enums) = "struct"
            /\ IsInstance(val, {"dict"})
    THEN "struct"
    ELSE "leaf"

\* the list validate_struct's loop walks in this activation
FrameFields(f, structs) ==
    StructFields(f.t.userDefined, find_struct(f.t.userDefined, structs), structs)

\* the number of iterations of the activation's loop
LoopLength(f, structs, enums) ==
    LET kind == LoopKind(f.val, f.t, structs, enums)
    IN  CASE kind = "array" -> Len(f.val.v)
          [] kind = "map" -> Len(f.val.v)
          [] kind = "struct" -> Len(FrameFields(f, structs))
          [] OTHER -> 0

\* what the activation does next: return or raise without a loop ("leaf"),
\* leave its loop ("end"), raise inside the loop body ("raise"), `continue`
\* past an optional field ("skip"), or call validate_type ("call")
MoveOp(f, structs, enums) ==
    LET kind == LoopKind(f.val, f.t, structs, enums)
    IN  IF kind = "leaf" THEN "leaf"
        ELSE IF f.j > LoopLength(f, structs, enums) THEN "end"
        ELSE IF kind = "array" THEN "call"
        ELSE IF kind = "map"
        THEN IF ~IsInstance(f.val.v[f.j][1], {"str"}) THEN "raise" ELSE "call"
        ELSE LET field == FrameFields(f, structs)[f.j]
             IN  IF ~DictHas(f.val, PyStr(field.name))
                 THEN IF ~FieldOptional(field) THEN "raise" ELSE "skip"
                 ELSE IF TypeName(DictGet(f.val, PyStr(field.name))) = "NoneType"
                 THEN IF ~FieldOptional(field) THEN "raise" ELSE "skip"
                 ELSE "call"

\* what the activation returns or raises when it makes no further call: the
\* whole of validate_type for a "leaf", the loop's end, or the raise of the
\* loop body at position j
LocalOutcome(f, structs, enums) ==
    LET kind == LoopKind(f.val, f.t, structs, enums)
        op == MoveOp(f, structs, enums)
        r == CASE op = "leaf" ->
                    validate_type(f.val, f.t, structs, enums, f.optional, f.path)
               [] op = "end" -> NoError
               [] op = "raise" /\ kind = "map" ->
                    MapLoop(f.val.v, f.j, f.t.mapValue, ElementOptional(f.optional),
                            structs, enums, f.path)
               [] op = "raise" /\ kind = "struct" ->
                    StructLoop(f.val, FrameFields(f, structs), f.j, f.t.userDefined,
                               structs, enums, f.path)
    IN  [r EXCEPT !.trace = <<>>]

\* a struct loop that validates the whole dict against each field's type
\* (faulty variant)
ChildFrameSameValue(f, structs, enums) ==
    LET kind == LoopKind(f.val, f.t, structs, enums)
    IN  CASE kind = "array" ->
               Frame(f.val.v[f.j], f.t.array, ElementOptional(f.optional),
                     Append(f.path, IndexStep(f.j - 1)))
          [] kind = "map" ->
               Frame(f.val.v[f.j][2], f.t.mapValue, ElementOptional(f.optional),
                     Append(f.path, KeyStep(f.val.v[f.j][1].v)))
          [] kind = "struct" ->
               LET field == FrameFields(f, structs)[f.j]
               IN  Frame(f.val, field.type, FieldOptional(field),
                         Append(f.path, FieldStep(field.name, f.t.userDefined)))

\* the activation the loop body's call of validate_type starts: on the
\* element, the map value or the field's value
ChildFrame(f, structs, enums) ==
    LET kind == LoopKind(f.val, f.t, structs, enums)
    IN  CASE kind = "array" ->
               Frame(f.val.v[f.j], f.t.array, ElementOptional(f.optional),
                     Append(f.path, IndexStep(f.j - 1)))
          [] kind = "map" ->
               Frame(f.val.v[f.j][2], f.t.mapValue, ElementOptional(f.optional),
                     Append(f.path, KeyStep(f.val.v[f.j][1].v)))
          [] kind = "struct" ->
               LET field == FrameFields(f, structs)[f.j]
               IN  Frame(DictGet(f.val, PyStr(field.name)), field.type,
                         FieldOptional(field),
                         Append(f.path, FieldStep(field.name, f.t.userDefined)))

\* the text the loop body's handler puts in front of a nested failure
FrameLayer(f, structs, enums) ==
    LET kind == LoopKind(f.val, f.t, structs, enums)
    IN  CASE kind = "array" ->
               Msg("Array element at index, validation failed:", <<>>, EnumerateIndex(f.j))
          [] kind = "map" ->
               Msg("Map value for key, validation failed:", <<f.val.v[f.j][1].v>>, -1)
          [] kind = "struct" ->
               Msg("Field, in struct, validation failed:",
                   <<FrameFields(f, structs)[f.j].name, f.t.userDefined>>, -1)

\* the stack with its top activation replaced
WithTop(f) == [stack EXCEPT ![Len(stack)] = f]

\* validate_type is called
EnterValidateType ==
    /\ pc = "input"
    /\ stack' = <<Frame(value, type_def, is_optional, <<>>)>>
    /\ pc' = "in_validate_type"
    /\ UNCHANGED <<Inputs, result, fields>>

\* the loop body calls validate_type on an element, a map value or a field
StepCall ==
    /\ pc = "in_validate_type"
    /\ ~TopFrame.done
    /\ MoveOp(TopFrame, all_structs, all_enums) = "call"
    /\ Len(stack) < MaxRecursion
    /\ stack' = Append(stack, ChildFrame(TopFrame, all_structs, all_enums))
    /\ UNCHANGED <<Inputs, pc, result, fields>>

\* the activation goes on without a call: past an optional field, or to
\* its return or raise
StepLocal ==
    /\ pc = "in_validate_type"
    /\ ~TopFrame.done
    /\ MoveOp(TopFrame, all_structs, all_enums) # "call"
    /\ stack' = IF MoveOp(TopFrame, all_structs, all_enums) = "skip"
                THEN WithTop([TopFrame EXCEPT !.j = @ + 1])
                ELSE WithTop([TopFrame EXCEPT
                                !.done = TRUE,
                                !.out = LocalOutcome(TopFrame, all_structs, all_enums)])
    /\ UNCHANGED <<Inputs, pc, result, fields>>

\* the activation returns or raises: to the caller of validate_type, or to
\* the loop body that called it, which wraps a failure and raises, or goes
\* on with the next iteration
StepReturn ==
    /\ pc = "in_validate_type"
    /\ TopFrame.done
    /\ IF Len(stack) = 1
       THEN /\ result' = TopFrame.out
            /\ pc' = "validate_type"
            /\ stack' = <<>>
       ELSE LET caller == stack[Len(stack) - 1]
                r == TopFrame.out
            IN  /\ stack' = Append(SubSeq(stack, 1, Len(stack) - 2),
                                   IF Failed(r)
                                   THEN [caller EXCEPT
                                           !.done = TRUE,
                                           !.out = Wrap(r, FrameLayer(caller, all_structs,
                                                                      all_enums))]
                                   ELSE [caller EXCEPT !.j = @ + 1])
                /\ UNCHANGED <<pc, result>>
    /\ UNCHANGED <<Inputs, fields>>

\* an activation of get_struct_fields: its struct name, and parent_fields
\* once the recursive call has returned
ResolveFrame(name) == [name |-> name, got_parent |-> FALSE, parent_fields |-> <<>>]

\* the activation is at `get_struct_fields(struct_def['extends'], all_structs)`
CallsParent(f, structs) ==
    /\ TruthyDef(find_struct(f.name, structs))
    /\ HasExtends(find_struct(f.name, structs))
    /\ ~f.got_parent

\* get_struct_fields is called
EnterGetStructFields ==
    /\ pc = "input"
    /\ TruthyName(type_def)
    /\ stack' = <<ResolveFrame(type_def.userDefined)>>
    /\ pc' = "in_get_struct_fields"
    /\ UNCHANGED <<Inputs, result, fields>>

\* the recursive call on the parent's name
ResolveCall ==
    /\ pc = "in_get_struct_fields"
    /\ CallsParent(TopFrame, all_structs)
    /\ Len(stack) < MaxRecursion
    /\ stack' = Append(stack, ResolveFrame(find_struct(TopFrame.name, all_structs).extends))
    /\ UNCHANGED <<Inputs, pc, result, fields>>

\* `return []` for an unknown name, or the merge loop and `return fields`
ResolveReturn ==
    /\ pc = "in_get_struct_fields"
    /\ ~CallsParent(TopFrame, all_structs)
    /\ LET struct_def == find_struct(TopFrame.name, all_structs)
           returned == IF ~TruthyDef(struct_def) THEN <<>>
                       ELSE MergeFields(TopFrame.parent_fields,
                                        DeclaredFields(struct_def), 1)
       IN  IF Len(stack) = 1
           THEN /\ fields' = returned
                /\ pc' = "get_struct_fields"
                /\ stack' = <<>>
           ELSE /\ stack' = Append(SubSeq(stack, 1, Len(stack) - 2),
                                   [stack[Len(stack) - 1] EXCEPT
                                      !.got_parent = TRUE,
                                      !.parent_fields = returned])
                /\ UNCHANGED <<pc, fields>>
    /\ UNCHANGED <<Inputs, result>>

\* a call beyond the interpreter's recursion limit raises RecursionError,
\* which no handler of get_struct_fields catches
RecursionLimit ==
    /\ pc = "in_get_struct_fields"
    /\ CallsParent(TopFrame, all_structs)
    /\ Len(stack) >= MaxRecursion
    /\ pc' = "RecursionError"
    /\ stack' = <<>>
    /\ UNCHANGED <<Inputs, result, fields>>

StepSchemaIds == {"plain", "nested", "mutual", "self", "ring"}

\* "plain" and "nested" as above; "mutual": Base and User refer to each
\* other through their tags fields, and User extends Base; "self" and
\* "ring": extends chains that come back to where they started
StepStructs(id) ==
    CASE id \in {"plain", "nested"} -> SchemaStructs(id)
      [] id = "mutual" ->
           [Base |-> [fields |-> <<Field("tags", TUser("User"), TRUE),
                                   FieldBare("id", TInt)>>],
            User |-> [extends |-> "Base",
                      fields |-> <<Field("tags", TUser("Base"), TRUE)>>]]
      [] id = "self" ->
           [Base |-> [extends |-> "Base", fields |-> <<FieldBare("id", TInt)>>]]
      [] id = "ring" ->
           [Base |-> [extends |-> "User", fields |-> <<FieldBare("id", TInt)>>],
            User |-> [extends |-> "Base", fields |-> <<FieldBare("id", TInt)>>]]

StepTypes ==
    {TInt, TUser("Base"), TUser("User"), TUser("Nope"), TArray(TUser("Base")),
     TMap(TUser("User"))}

\* what the stepped values hold: null, an int, a dict with an id, a dict
\* with an id and a nested dict, and a list of one dict
StepPool ==
    LET leaf == PyDict(<<<<PyStr("id"), PyInt(1)>>>>)
    IN  {PyNone, PyInt(1), leaf,
         PyDict(<<<<PyStr("tags"), leaf>>, <<PyStr("id"), PyInt(1)>>>>),
         PyList(<<leaf>>)}

StepValues == InnerAtoms \cup Lists(StepPool, MaxLen) \cup Dicts(StepPool, MaxLen)

\* a schema whose extends chain does not end comes with the null value,
\* for which validate_type returns before it looks at the schema
InitSteps ==
    /\ \E id \in StepSchemaIds :
         /\ all_structs = StepStructs(id)
         /\ all_enums = SchemaEnums(IF id = "plain" THEN "plain" ELSE "nested")
         /\ value \in IF Acyclic(StepStructs(id)) THEN StepValues ELSE {PyNone}
    /\ type_def \in StepTypes
    /\ is_optional \in BOOLEAN
    /\ pc = "input"
    /\ result = NoError
    /\ fields = <<>>
    /\ stack = <<>>

\* the steps of a call that has started
Running ==
    \/ StepCall
    \/ StepLocal
    \/ StepReturn
    \/ ResolveCall
    \/ ResolveReturn
    \/ RecursionLimit

NextSteps ==
    \/ EnterValidateType
    \/ EnterGetStructFields
    \/ Running

\* the interpreter runs a call that has started: no step of it waits on
\* anything
SpecSteps == InitSteps /\ [][NextSteps]_vars /\ WF_vars(Running)

Max(S) == CHOOSE m \in S : \A x \in S : x <= m

\* how deep the value nests: 0 for an atom or an empty container, else one
\* more than its deepest member
RECURSIVE NestingDepth(_)
NestingDepth(val) ==
    CASE TypeName(val) = "list" ->
           Max({0} \cup {1 + NestingDepth(val.v[j]) : j \in 1..Len(val.v)})
      [] TypeName(val) = "dict" ->
           Max({0} \cup {1 + NestingDepth(val.v[j][2]) : j \in 1..Len(val.v)})
      [] OTHER -> 0

\* C12: over a schema whose extends chains end, a call of get_struct_fields
\* returns; a call of validate_type returns or raises, also over structs
\* that refer to themselves or to each other through field types; and the
\* activations of validate_type on the stack never number more than one
\* plus the nesting depth of the validated value
C12_TerminatesWithinValueDepth ==
    /\ (pc = "in_get_struct_fields" /\ Acyclic(all_structs))
           ~> (pc = "get_struct_fields")
    /\ (pc = "in_validate_type") ~> (pc = "validate_type")
    /\ [](pc = "in_validate_type" => Len(stack) <= 1 + NestingDepth(value))

\* C12 witness: in the "mutual" schema a Base holding a User holding a Base
\* was validated, three levels deep, and the call returned
C12_Witness ==
    /\ pc = "validate_type" /\ ~Failed(result)
    /\ all_structs = StepStructs("mutual")
    /\ type_def = TUser("Base")
    /\ NestingDepth(value) = 3

====
